---- MODULE Spec2Model ----
(***************************************************************************)
(* educelab::ObjectCache (include/educelab/core/utils/Caching.hpp): a      *)
(* size-bounded key/value store with an LRU eviction policy and a          *)
(* pluggable synchronization policy.                                       *)
(*                                                                         *)
(* Spec     : one ObjectCache with NoSyncPolicy, every public call one     *)
(*            atomic step (single-threaded use).                           *)
(* SpecSync : one SynchronizedObjectCache shared by Threads; every call    *)
(*            is lock / body / unlock on the std::shared_mutex.            *)
(* SpecFair : SpecSync with threads that wait for the mutex, under a fair  *)
(*            mutex and threads that keep running.                         *)
(* SpecInserts : a run of sequential inserts on one cache.                 *)
(* SpecCopy : a cache and a second one copied or moved from it.            *)
(* SpecKeys : threads inserting into two synchronized caches that share    *)
(*            the static key generator.                                    *)
(* SpecDraw : threads inserting into one synchronized cache, the key loop  *)
(*            step by step, under a generator that produces every key.     *)
(* SpecOwn  : one cache whose values are std::shared_ptr handles.          *)
(***************************************************************************)
EXTENDS Integers, Sequences, FiniteSets, TLC

(* ---- bounds of the model ---------------------------------------------- *)
\* key_type is std::size_t; the model's key space is 0..MaxKey
MaxKey == 2
\* declared sizes of inserted objects are drawn from 0..MaxSize
MaxSize == 2
\* number of caller threads of the synchronized cache
NumThreads == 2
\* number of calls made on the cache in one behaviour
MaxCalls == 4
\* number of calls the threads make on the shared cache in one behaviour
MaxSyncCalls == 2
\* number of locking calls the threads make when they may have to wait
MaxFairCalls == 2
\* number of inserts of a run of sequential inserts
MaxInserts == 3
\* number of calls made on a cache and the cache made from it
MaxCopyCalls == 3
\* number of inserts the threads start on the caches sharing the key generator
MaxKeyCalls == 2
\* number of inserts the threads start on one shared cache
MaxDrawCalls == 4
\* number of calls made on the cache of shared handles
MaxOwnCalls == 4

(* ---- program constants ------------------------------------------------ *)
\* capacity_{10'000'000}
DefaultCapacity == 10000000
\* sizeof(value) of the cached type, in the model's unit of size
SizeOfValue == 1

Keys == 0..MaxKey
\* cached values: the caller caches a fresh object with every insert (the
\* ordinal of the call), so that no two inserts store equal values
Values == 1..MaxCalls
Sizes == 0..MaxSize
\* arguments of set_capacity(c)
Capacities == 0..MaxSize
\* arguments of clear(n)
ClearSizes == 0..MaxSize
\* an indeterminate size_type value (read through an invalid reference) is
\* drawn from this set
GarbageSizes == 0..1
Threads == 1..NumThreads

VARIABLES
    cache_,      \* std::unordered_map<key_type, CacheEntry>: key -> [value, size]
    entryList_,  \* LRUPolicy::entryList_: sequence of [key, size], front = index 1
    entryMap_,   \* LRUPolicy::entryMap_: the keys that have a list iterator
    size_,       \* current size of the cache in bytes
    capacity_,   \* current capacity in bytes
    status,      \* "running", "crashed" (process aborted), "spinning" (key loop)
    last,        \* the call made last and what it returned
    useOrder,    \* history: live keys, most recently used (inserted/fetched) first
    handles,     \* history: <<key, value>> of every insert whose entry was not removed since
    mutex_,      \* std::shared_mutex: [writer: thread or 0, readers: set of threads]
    pc,          \* per thread: "idle", "locked", "storing"
    call,        \* per thread: the call in progress
    settled,     \* history: size_ as the call that released mutex_ last left it
    calls,       \* number of calls made so far
    issued,      \* history: [key, size] of every insert that returned, in call order
    objects,     \* SpecCopy: the ObjectCache objects "a" and "b", by name
    nodes,       \* SpecCopy: the std::list nodes ever allocated, by address
    copied,      \* SpecCopy history: how "b" was made and what "a" held then
    mutexes,     \* SpecKeys: mutex_ of each cache object: the holding thread or 0
    gen,         \* SpecKeys: the static std::mt19937 of UniformIntegerKey:
                 \* [busy: threads inside dist(gen), torn: two were inside at once]
    owners       \* SpecOwn: per object cached as a std::shared_ptr, [uses: the
                 \* use_count of its control block, outside: the handles held
                 \* by callers, dead: its destructor has run]

cacheVars == <<cache_, entryList_, entryMap_, size_, capacity_>>
histVars == <<last, useOrder, handles>>
syncVars == <<mutex_, pc, call, settled>>
copyVars == <<objects, nodes, copied>>
\* the variables of the specifications about more than one cache
keyVars == <<mutexes, gen>>
ownVars == <<owners>>
apartVars == <<copyVars, keyVars, ownVars>>
vars == <<cache_, entryList_, entryMap_, size_, capacity_, status, last,
          useOrder, handles, mutex_, pc, call, settled, calls, issued,
          objects, nodes, copied, mutexes, gen, owners>>

(* ---- helpers ---------------------------------------------------------- *)
Range(s) == {s[i] : i \in 1..Len(s)}

RECURSIVE SumSeq(_)
SumSeq(s) == IF s = <<>> THEN 0 ELSE s[1] + SumSeq(Tail(s))

RECURSIVE SumSizes(_, _)
\* sum of the declared sizes of the entries of map m with keys in ks
SumSizes(m, ks) ==
    IF ks = {} THEN 0
    ELSE LET k == CHOOSE x \in ks : TRUE
         IN m[k].size + SumSizes(m, ks \ {k})

\* the sequence s without the elements satisfying Drop
RECURSIVE Without(_, _)
Without(s, drop) ==
    IF s = <<>> THEN <<>>
    ELSE IF s[1] \in drop THEN Without(Tail(s), drop)
         ELSE <<s[1]>> \o Without(Tail(s), drop)

\* function m restricted to the keys outside ks (unordered_map::extract / clear)
Remove(m, ks) == [k \in (DOMAIN m) \ ks |-> m[k]]

\* position of the first list record with this key (0 when there is none)
RECURSIVE PosFrom(_, _, _)
PosFrom(list, key, i) ==
    IF i > Len(list) THEN 0
    ELSE IF list[i].key = key THEN i ELSE PosFrom(list, key, i + 1)
Pos(list, key) == PosFrom(list, key, 1)

\* position of a key in a sequence of keys (0 when absent)
RECURSIVE IndexFrom(_, _, _)
IndexFrom(s, x, i) ==
    IF i > Len(s) THEN 0
    ELSE IF s[i] = x THEN i ELSE IndexFrom(s, x, i + 1)
Index(s, x) == IndexFrom(s, x, 1)

\* the list without its element at position i
DropAt(list, i) == SubSeq(list, 1, i - 1) \o SubSeq(list, i + 1, Len(list))

(* ---- detail::LRUPolicy ------------------------------------------------ *)
\* insert(key, size): emplace_front, entryMap_[key] = begin()
LRUInsertBack(list, map, key, size) ==
    [list |-> Append(list, [key |-> key, size |-> size]),
     map  |-> map \cup {key}]
LRUInsert(list, map, key, size) ==
    [list |-> <<[key |-> key, size |-> size]>> \o list,
     map  |-> map \cup {key}]

\* insert(key, size): assert((entryMap_.count(key) == 0) && "Key already cached
\* by policy")
LRUInsertAssert(map, key) == key \notin map

\* touch(key): entryMap_.at(key) (throws when untracked), splice to the front
LRUTouchNoSplice(list, i) == list
LRUTouchSplice(list, i) == <<list[i]>> \o DropAt(list, i)
LRUTouch(list, map, key) ==
    IF key \notin map
    THEN [list |-> list, map |-> map, thrown |-> TRUE]
    ELSE [list |-> LRUTouchSplice(list, Pos(list, key)), map |-> map,
          thrown |-> FALSE]

\* erase(key): entryMap_.at(key), entryList_.erase(iter), entryMap_.erase(key)
LRUEraseMapOnly(list, map, key) ==
    [list |-> list, map |-> map \ {key}, thrown |-> key \notin map]
LRUErase(list, map, key) ==
    IF key \notin map
    THEN [list |-> list, map |-> map, thrown |-> TRUE]
    ELSE [list |-> DropAt(list, Pos(list, key)), map |-> map \ {key},
          thrown |-> FALSE]

\* clear(size): the while loop; `empty` tells that the loop reached
\* entryList_.back() on an empty list (undefined behaviour) with total < size
RECURSIVE LRUClearLoop(_, _, _, _, _)
LRUClearVictimFront(list) == list[1]
LRUClearVictim(list) == list[Len(list)]
LRUClearLoop(list, map, keys, total, size) ==
    IF total < size
    THEN IF list = <<>>
         THEN [list |-> list, map |-> map, keys |-> keys, total |-> total,
               empty |-> TRUE]
         ELSE LET back == LRUClearVictim(list)
              IN LRUClearLoop(SubSeq(list, 1, Len(list) - 1), map \ {back.key},
                              Append(keys, back.key), total + back.size, size)
    ELSE [list |-> list, map |-> map, keys |-> keys, total |-> total,
          empty |-> FALSE]
LRUClear(list, map, size) == LRUClearLoop(list, map, <<>>, 0, size)


(* ---- ObjectCache: private clear_ -------------------------------------- *)
\* the state a call works on
CacheState == [cache |-> cache_, list |-> entryList_, map |-> entryMap_,
               size |-> size_]

\* clear_(): size_ = 0, both containers cleared; returns the old size_
Clear_AllKeepPolicy(st) ==
    [cache |-> <<>>, list |-> st.list, map |-> st.map, size |-> 0,
     cleared |-> st.size, keys |-> <<>>, outcome |-> "ok"]
Clear_All(st) ==
    [cache |-> <<>>, list |-> <<>>, map |-> {}, size |-> 0,
     cleared |-> st.size, keys |-> <<>>, outcome |-> "ok"]

\* clear_(size): policy_.clear(size), then extract every returned key.
\* When the policy's loop runs off the empty list, back()/pop_back() on the
\* empty std::list and mapped() on the empty node handle are undefined:
\* the build either aborts the process ("crash") or goes on with an
\* indeterminate record, which leaves an indeterminate `cleared` and so an
\* indeterminate size_ ("garbage").
Clear_Extracted(cache, keys) == SumSizes(cache, Range(keys) \cap DOMAIN cache)
Clear_N(st, size) ==
    LET r == LRUClear(st.list, st.map, size)
        cleared == Clear_Extracted(st.cache, r.keys)
        undefined == r.empty \/ ~(Range(r.keys) \subseteq DOMAIN st.cache)
    IN IF ~undefined
       THEN {[cache |-> Remove(st.cache, Range(r.keys)), list |-> r.list,
              map |-> r.map, size |-> st.size - cleared, cleared |-> cleared,
              keys |-> r.keys, outcome |-> "ok"]}
       ELSE {[cache |-> st.cache, list |-> st.list, map |-> st.map,
              size |-> st.size, cleared |-> 0, keys |-> <<>>,
              outcome |-> "crash"]}
            \cup
            {[cache |-> Remove(st.cache, Range(r.keys)), list |-> r.list,
              map |-> r.map, size |-> g, cleared |-> cleared + g,
              keys |-> r.keys, outcome |-> "garbage"] : g \in GarbageSizes}

\* no eviction needed
Clear_None(st) ==
    {[cache |-> st.cache, list |-> st.list, map |-> st.map, size |-> st.size,
      cleared |-> 0, keys |-> <<>>, outcome |-> "ok"]}

(* ---- history bookkeeping ---------------------------------------------- *)
NoCall == [op |-> "none", key |-> 0, arg |-> 0, ret |-> 0, ok |-> TRUE,
           evicted |-> <<>>, undefined |-> FALSE]
Done(op, key, arg, ret, ok, evicted, undefined) ==
    [op |-> op, key |-> key, arg |-> arg, ret |-> ret, ok |-> ok,
     evicted |-> evicted, undefined |-> undefined]

\* keys removed from the store between two states
Gone(before, after) == (DOMAIN before) \ (DOMAIN after)
HandlesAfter(removed) == {h \in handles : h[1] \notin removed}

\* the process aborts inside the call: the call never returns and nothing
\* is observable afterwards
Abort(op, arg) ==
    /\ status' = "crashed"
    /\ last' = Done(op, 0, arg, 0, FALSE, <<>>, TRUE)
    /\ UNCHANGED <<cacheVars, useOrder, handles>>

\* the call's writes, as one assignment of the cache's data members
Commit(cache, list, map, size, capacity) ==
    /\ cache_' = cache
    /\ entryList_' = list
    /\ entryMap_' = map
    /\ size_' = size
    /\ capacity_' = capacity

(* ---- ObjectCache: public calls (the code between lock and unlock) ----- *)
\* static KeyFunc gen: the values one gen() call may return
UniformIntegerKeyStuck == {0}
UniformIntegerKey == Keys
\* do { key = gen(); } while (cache_.count(key) != 0): the keys the loop can
\* end with
DrawKeyNoRetry(cache) == UniformIntegerKey
DrawKey(cache) == {k \in UniformIntegerKey : k \notin DOMAIN cache}

\* cache_[key] = {std::move(value), size}
StoreEntryMovedFrom(cache, key, value, size) ==
    [k \in (DOMAIN cache) \cup {key} |->
        IF k = key THEN [value |-> 0, size |-> size] ELSE cache[k]]
StoreEntry(cache, key, value, size) ==
    [k \in (DOMAIN cache) \cup {key} |->
        IF k = key THEN [value |-> value, size |-> size] ELSE cache[k]]

\* insert: "if (size_ + size > capacity_) clear_(size_ + size - capacity_)"
InsertEvict(st, size, capacity) ==
    IF st.size + size > capacity
    THEN Clear_N(st, st.size + size - capacity)
    ELSE Clear_None(st)

InsertBody(value, size) ==
    /\ status = "running"
    /\ \E o \in InsertEvict(CacheState, size, capacity_) :
         \/ /\ o.outcome = "crash"
            /\ Abort("insert", size)
         \/ /\ o.outcome # "crash"
            /\ DrawKey(o.cache) = {}
            \* every key is live: the do-while never ends
            /\ status' = "spinning"
            /\ Commit(o.cache, o.list, o.map, o.size, capacity_)
            /\ useOrder' = Without(useOrder, Range(o.keys))
            /\ handles' = HandlesAfter(Gone(cache_, o.cache))
            /\ last' = Done("insert", 0, size, 0, FALSE, o.keys,
                            o.outcome = "garbage")
         \/ /\ o.outcome # "crash"
            /\ \E key \in DrawKey(o.cache) :
                 LET p == LRUInsert(o.list, o.map, key, size)
                 IN /\ Commit(StoreEntry(o.cache, key, value, size),
                              p.list, p.map, o.size + size, capacity_)
                    /\ last' = Done("insert", key, size, key, TRUE, o.keys,
                                    o.outcome = "garbage")
                    /\ useOrder' = <<key>> \o Without(useOrder, Range(o.keys) \cup {key})
                    /\ handles' = HandlesAfter(Gone(cache_, o.cache))
                                    \cup {<<key, value>>}
            /\ UNCHANGED status


\* cache_.at(key): the lookup get() starts with; "missing" is std::out_of_range
LookupAtCreating(cache, key) ==
    [missing |-> FALSE,
     cache |-> IF key \in DOMAIN cache THEN cache
               ELSE StoreEntry(cache, key, 0, 0)]
LookupAt(cache, key) ==
    [missing |-> key \notin DOMAIN cache, cache |-> cache]

\* get: auto value = cache_.at(key).value; policy_.touch(key); return value
GetBody(key) ==
    /\ status = "running"
    /\ LET at == LookupAt(cache_, key)
           t == LRUTouch(entryList_, entryMap_, key)
       IN IF at.missing \/ t.thrown
          THEN \* the exception leaves get before or inside touch
               /\ Commit(at.cache, entryList_, entryMap_, size_, capacity_)
               /\ last' = Done("get", key, 0, 0, FALSE, <<>>, FALSE)
               /\ UNCHANGED <<useOrder, handles>>
          ELSE /\ Commit(at.cache, t.list, t.map, size_, capacity_)
               /\ last' = Done("get", key, 0, at.cache[key].value, TRUE, <<>>, FALSE)
               /\ useOrder' = <<key>> \o Without(useOrder, {key})
               /\ UNCHANGED handles
    /\ UNCHANGED status

\* find: empty optional when cache_.count(key) != 1, else value and touch
FindBody(key) ==
    /\ status = "running"
    /\ IF key \notin DOMAIN cache_
       THEN /\ last' = Done("find", key, 0, 0, FALSE, <<>>, FALSE)
            /\ UNCHANGED <<cacheVars, useOrder, handles>>
       ELSE LET t == LRUTouch(entryList_, entryMap_, key)
            IN /\ Commit(cache_, t.list, t.map, size_, capacity_)
               /\ last' = Done("find", key, 0, cache_[key].value, ~t.thrown,
                               <<>>, FALSE)
               /\ useOrder' = <<key>> \o Without(useOrder, {key})
               /\ UNCHANGED handles
    /\ UNCHANGED status

\* contains: cache_.count(key) == 1
ContainsBodyTouching(key) ==
    /\ status = "running"
    /\ LET t == LRUTouch(entryList_, entryMap_, key)
       IN /\ Commit(cache_, t.list, t.map, size_, capacity_)
          /\ last' = Done("contains", key, 0, 0, key \in DOMAIN cache_, <<>>, FALSE)
    /\ UNCHANGED <<useOrder, handles, status>>
ContainsBody(key) ==
    /\ status = "running"
    /\ last' = Done("contains", key, 0, 0, key \in DOMAIN cache_, <<>>, FALSE)
    /\ UNCHANGED <<cacheVars, useOrder, handles, status>>

\* count: cache_.size()
CountBody ==
    /\ status = "running"
    /\ last' = Done("count", 0, 0, Cardinality(DOMAIN cache_), TRUE, <<>>, FALSE)
    /\ UNCHANGED <<cacheVars, useOrder, handles, status>>

\* empty: cache_.empty()
EmptyBody ==
    /\ status = "running"
    /\ last' = Done("empty", 0, 0, 0, DOMAIN cache_ = {}, <<>>, FALSE)
    /\ UNCHANGED <<cacheVars, useOrder, handles, status>>

\* size: return size_ (no lock)
SizeBodyCounting ==
    /\ status = "running"
    /\ last' = Done("size", 0, 0, Cardinality(DOMAIN cache_), TRUE, <<>>, FALSE)
    /\ UNCHANGED <<cacheVars, useOrder, handles, status>>
SizeBody ==
    /\ status = "running"
    /\ last' = Done("size", 0, 0, size_, TRUE, <<>>, FALSE)
    /\ UNCHANGED <<cacheVars, useOrder, handles, status>>

\* capacity: return capacity_ (no lock)
CapacityBody ==
    /\ status = "running"
    /\ last' = Done("capacity", 0, 0, capacity_, TRUE, <<>>, FALSE)
    /\ UNCHANGED <<cacheVars, useOrder, handles, status>>

\* erase: 0 when absent; else extract, policy_.erase, size_ -= size
EraseBodyUnchecked(key) ==
    /\ status = "running"
    /\ LET e == LRUErase(entryList_, entryMap_, key)
       IN IF e.thrown
          THEN /\ last' = Done("erase", key, 0, 0, FALSE, <<>>, FALSE)
               /\ UNCHANGED <<cacheVars, useOrder, handles>>
          ELSE /\ Commit(Remove(cache_, {key}), e.list, e.map,
                         size_ - cache_[key].size, capacity_)
               /\ last' = Done("erase", key, 0, cache_[key].size, TRUE, <<>>, FALSE)
               /\ useOrder' = Without(useOrder, {key})
               /\ handles' = HandlesAfter({key})
    /\ UNCHANGED status
EraseBody(key) ==
    /\ status = "running"
    /\ IF key \notin DOMAIN cache_
       THEN /\ last' = Done("erase", key, 0, 0, TRUE, <<>>, FALSE)
            /\ UNCHANGED <<cacheVars, useOrder, handles>>
       ELSE LET e == LRUErase(entryList_, entryMap_, key)
                size == cache_[key].size
            IN IF e.thrown
               THEN \* policy_.erase threw after the extract
                    /\ Commit(Remove(cache_, {key}), entryList_, entryMap_,
                              size_, capacity_)
                    /\ last' = Done("erase", key, 0, 0, FALSE, <<>>, FALSE)
                    /\ useOrder' = Without(useOrder, {key})
                    /\ handles' = HandlesAfter({key})
               ELSE /\ Commit(Remove(cache_, {key}), e.list, e.map,
                              size_ - size, capacity_)
                    /\ last' = Done("erase", key, 0, size, TRUE, <<>>, FALSE)
                    /\ useOrder' = Without(useOrder, {key})
                    /\ handles' = HandlesAfter({key})
    /\ UNCHANGED status

\* clear(): clear_()
ClearBody ==
    /\ status = "running"
    /\ LET o == Clear_All(CacheState)
       IN /\ Commit(o.cache, o.list, o.map, o.size, capacity_)
          /\ last' = Done("clear", 0, 0, o.cleared, TRUE, <<>>, FALSE)
          /\ useOrder' = <<>>
          /\ handles' = {}
    /\ UNCHANGED status

\* what a call does with one outcome of clear_(size) once capacity_ is set
Evicted(o, op, arg, capacity) ==
    \/ /\ o.outcome = "crash"
       /\ Abort(op, arg)
    \/ /\ o.outcome # "crash"
       /\ Commit(o.cache, o.list, o.map, o.size, capacity)
       /\ last' = Done(op, 0, arg, o.cleared, TRUE, o.keys, o.outcome = "garbage")
       /\ useOrder' = Without(useOrder, Range(o.keys))
       /\ handles' = HandlesAfter(Gone(cache_, o.cache))
       /\ UNCHANGED status

\* clear(size): clear_(size)
ClearNBody(size) ==
    /\ status = "running"
    /\ \E o \in Clear_N(CacheState, size) :
         Evicted(o, "clear_n", size, capacity_)

\* set_capacity: capacity_ = capacity; if (size_ > capacity) clear_(size_ - capacity)
SetCapacityEvict(st, capacity) ==
    IF st.size > capacity
    THEN Clear_N(st, st.size - capacity)
    ELSE Clear_None(st)
SetCapacityBody(capacity) ==
    /\ status = "running"
    /\ \E o \in SetCapacityEvict(CacheState, capacity) :
         Evicted(o, "set_capacity", capacity, capacity)

(* ---- Spec: single-threaded ObjectCache (NoSyncPolicy) ------------------ *)
\* a thread's call in progress: its arguments and insert's local variables
Pending(op, key, arg, value) ==
    [op |-> op, key |-> key, arg |-> arg, value |-> value, evicted |-> <<>>,
     undefined |-> FALSE]
NoPending == Pending("none", 0, 0, 0)

\* no second cache object is made
Objects == {"a", "b"}
NoObject == [made |-> FALSE, moved |-> FALSE, cache |-> <<>>, list |-> <<>>,
             map |-> <<>>, size |-> 0, capacity |-> DefaultCapacity]
NoCopy == [how |-> "none", cache |-> <<>>]
NoCopies ==
    /\ objects = [c \in Objects |-> NoObject]
    /\ nodes = <<>>
    /\ copied = NoCopy
    /\ mutexes = [c \in Objects |-> 0]
    /\ gen = [busy |-> {}, torn |-> FALSE]
    /\ owners = <<>>

Init ==
    /\ cache_ = <<>>
    /\ entryList_ = <<>>
    /\ entryMap_ = {}
    /\ size_ = 0
    /\ capacity_ = DefaultCapacity
    /\ status = "running"
    /\ last = NoCall
    /\ useOrder = <<>>
    /\ handles = {}
    /\ mutex_ = [writer |-> 0, readers |-> {}]
    /\ pc = [t \in Threads |-> "idle"]
    /\ call = [t \in Threads |-> NoPending]
    /\ settled = 0
    /\ calls = 0
    /\ issued = <<>>
    /\ NoCopies

\* one more call is made
Tick ==
    /\ calls < MaxCalls
    /\ calls' = calls + 1
    /\ UNCHANGED <<issued, apartVars>>

Insert == Tick /\ (\E s \in Sizes : InsertBody(calls + 1, s)) /\ UNCHANGED syncVars
Get == Tick /\ (\E k \in Keys : GetBody(k)) /\ UNCHANGED syncVars
Find == Tick /\ (\E k \in Keys : FindBody(k)) /\ UNCHANGED syncVars
Contains == Tick /\ (\E k \in Keys : ContainsBody(k)) /\ UNCHANGED syncVars
Erase == Tick /\ (\E k \in Keys : EraseBody(k)) /\ UNCHANGED syncVars
Clear == Tick /\ ClearBody /\ UNCHANGED syncVars
ClearN == Tick /\ (\E n \in ClearSizes : ClearNBody(n)) /\ UNCHANGED syncVars
SetCapacity == Tick /\ (\E c \in Capacities : SetCapacityBody(c)) /\ UNCHANGED syncVars
Count == Tick /\ CountBody /\ UNCHANGED syncVars
Empty == Tick /\ EmptyBody /\ UNCHANGED syncVars
Size == Tick /\ SizeBody /\ UNCHANGED syncVars
Capacity == Tick /\ CapacityBody /\ UNCHANGED syncVars

Next ==
    \/ Insert
    \/ Get
    \/ Find
    \/ Contains
    \/ Erase
    \/ Clear
    \/ ClearN
    \/ SetCapacity
    \/ Count
    \/ Empty
    \/ Size
    \/ Capacity

Spec == Init /\ [][Next]_vars


(* ---- SpecSync: SynchronizedObjectCache shared by Threads -------------- *)
\* the lock class each call constructs on mutex_ (none for size, capacity)
LockClass(op) ==
    CASE op \in {"insert", "erase", "clear", "clear_n", "set_capacity"} -> "write"
      [] op \in {"get", "find"} -> "read"
      [] op \in {"contains", "count", "empty"} -> "trivial"
      [] OTHER -> "none"

\* ExclusiveRWSyncPolicy: write and read are std::lock_guard (lock()),
\* trivial is std::shared_lock (lock_shared())
SharedReadSyncPolicy(class) ==
    IF class = "write" THEN "exclusive" ELSE "shared"
SharedSyncPolicy(class) == "shared"
ExclusiveRWSyncPolicy(class) ==
    IF class \in {"write", "read"} THEN "exclusive" ELSE "shared"

\* std::shared_mutex: lock() needs no owner at all, lock_shared() no writer
CanLock(m, mode) ==
    IF mode = "exclusive"
    THEN m.writer = 0 /\ m.readers = {}
    ELSE m.writer = 0
Locked(m, mode, t) ==
    IF mode = "exclusive"
    THEN [m EXCEPT !.writer = t]
    ELSE [m EXCEPT !.readers = @ \cup {t}]
Unlocked(m, t) ==
    [writer |-> IF m.writer = t THEN 0 ELSE m.writer,
     readers |-> m.readers \ {t}]

\* the public methods a thread may call
SyncOps == {"insert", "get", "find", "contains", "erase", "clear", "clear_n",
            "set_capacity", "count", "empty", "size", "capacity"}

\* one more locking call is made on the shared cache
SyncTick ==
    /\ calls < MaxSyncCalls
    /\ calls' = calls + 1
    /\ UNCHANGED <<issued, apartVars>>

\* a thread enters a public method and the constructor of its lock guard
\* returns (the method's arguments are read in its body)
SyncLock(t) ==
    /\ status = "running"
    /\ pc[t] = "idle"
    /\ SyncTick
    /\ \E op \in SyncOps :
         /\ LockClass(op) # "none"
         /\ LET mode == ExclusiveRWSyncPolicy(LockClass(op))
            IN /\ CanLock(mutex_, mode)
               /\ mutex_' = Locked(mutex_, mode, t)
         /\ call' = [call EXCEPT ![t] =
                       Pending(op, 0, 0, IF op = "insert" THEN calls + 1 ELSE 0)]
    /\ pc' = [pc EXCEPT ![t] = "locked"]
    /\ UNCHANGED <<cacheVars, status, histVars, settled>>

\* size() and capacity() read the atomic counters without a lock
SyncLockFree(t) ==
    /\ pc[t] = "idle"
    /\ SizeBody \/ CapacityBody
    /\ UNCHANGED <<mutex_, pc, call, settled, calls, issued, apartVars>>

\* the guard's destructor runs as the method returns or throws
SyncReturnHolding(t) ==
    /\ mutex_' = mutex_
    /\ pc' = [pc EXCEPT ![t] = "idle"]
    /\ call' = [call EXCEPT ![t] = NoPending]
    /\ settled' = size_'
SyncReturn(t) ==
    /\ mutex_' = Unlocked(mutex_, t)
    /\ pc' = [pc EXCEPT ![t] = "idle"]
    /\ call' = [call EXCEPT ![t] = NoPending]
    /\ settled' = size_'

\* insert, first part: make space, then draw the key
SyncInsertEvictOf(t, sizes) ==
    /\ status = "running"
    /\ pc[t] = "locked"
    /\ call[t].op = "insert"
    /\ \E size \in sizes :
       \E o \in InsertEvict(CacheState, size, capacity_) :
         \/ /\ o.outcome = "crash"
            /\ Abort("insert", size)
            /\ UNCHANGED <<pc, call>>
         \/ /\ o.outcome # "crash"
            /\ Commit(o.cache, o.list, o.map, o.size, capacity_)
            /\ useOrder' = Without(useOrder, Range(o.keys))
            /\ handles' = HandlesAfter(Gone(cache_, o.cache))
            /\ IF DrawKey(o.cache) = {}
               THEN /\ status' = "spinning"
                    /\ last' = Done("insert", 0, size, 0, FALSE, o.keys,
                                    o.outcome = "garbage")
                    /\ UNCHANGED <<pc, call>>
               ELSE /\ \E key \in DrawKey(o.cache) :
                         call' = [call EXCEPT ![t].key = key,
                                              ![t].arg = size,
                                              ![t].evicted = o.keys,
                                              ![t].undefined = (o.outcome = "garbage")]
                    /\ pc' = [pc EXCEPT ![t] = "storing"]
                    /\ UNCHANGED <<status, last>>
    /\ UNCHANGED <<mutex_, settled, calls, issued, apartVars>>

SyncInsertEvict(t) == SyncInsertEvictOf(t, Sizes)

\* insert, second part: store the entry, register it, size_ += size
SyncInsertStore(t) ==
    /\ status = "running"
    /\ pc[t] = "storing"
    /\ LET c == call[t]
           p == LRUInsert(entryList_, entryMap_, c.key, c.arg)
       IN /\ Commit(StoreEntry(cache_, c.key, c.value, c.arg), p.list, p.map,
                    size_ + c.arg, capacity_)
          /\ last' = Done("insert", c.key, c.arg, c.key, TRUE, c.evicted,
                          c.undefined)
          /\ useOrder' = <<c.key>> \o Without(useOrder, {c.key})
          /\ handles' = handles \cup {<<c.key, c.value>>}
    /\ SyncReturn(t)
    /\ UNCHANGED <<status, calls, issued, apartVars>>

\* every other method: its body, then the guard is released
SyncBody(t) ==
    /\ pc[t] = "locked"
    /\ LET op == call[t].op
       IN \/ op = "get" /\ \E k \in Keys : GetBody(k)
          \/ op = "find" /\ \E k \in Keys : FindBody(k)
          \/ op = "contains" /\ \E k \in Keys : ContainsBody(k)
          \/ op = "erase" /\ \E k \in Keys : EraseBody(k)
          \/ op = "clear" /\ ClearBody
          \/ op = "clear_n" /\ \E n \in ClearSizes : ClearNBody(n)
          \/ op = "set_capacity" /\ \E c \in Capacities :
                                      \* largest capacity first
                                      SetCapacityBody(MaxSize - c)
          \/ op = "count" /\ CountBody
          \/ op = "empty" /\ EmptyBody
    /\ IF status' = "running"
       THEN SyncReturn(t)
       ELSE UNCHANGED <<mutex_, pc, call, settled>>
    /\ UNCHANGED <<calls, issued, apartVars>>

NextSync ==
    \E t \in Threads :
        \/ SyncLock(t)
        \/ SyncLockFree(t)
        \/ SyncInsertEvict(t)
        \/ SyncInsertStore(t)
        \/ SyncBody(t)

\* the threads start on a cache whose capacity was left at its default or
\* limited by a set_capacity call made on the empty cache
InitSync ==
    /\ cache_ = <<>>
    /\ entryList_ = <<>>
    /\ entryMap_ = {}
    /\ size_ = 0
    /\ capacity_ \in {DefaultCapacity} \cup Capacities
    /\ status = "running"
    /\ last = NoCall
    /\ useOrder = <<>>
    /\ handles = {}
    /\ mutex_ = [writer |-> 0, readers |-> {}]
    /\ pc = [t \in Threads |-> "idle"]
    /\ call = [t \in Threads |-> NoPending]
    /\ settled = 0
    /\ calls = 0
    /\ issued = <<>>
    /\ NoCopies

SpecSync == InitSync /\ [][NextSync]_vars


(* ---- SpecFair: SpecSync with threads that wait for the mutex ---------- *)
\* a thread enters a public method that constructs a lock guard; the
\* guard's constructor has not returned yet.  What matters while the
\* thread waits is the kind of guard: std::lock_guard or std::shared_lock.
FairCall(t) ==
    /\ status = "running"
    /\ pc[t] = "idle"
    /\ calls < MaxFairCalls
    /\ calls' = calls + 1
    /\ \E op \in SyncOps :
         /\ LockClass(op) # "none"
         /\ call' = [call EXCEPT ![t] =
                       Pending(ExclusiveRWSyncPolicy(LockClass(op)), 0, 0, calls + 1)]
    /\ pc' = [pc EXCEPT ![t] = "waiting"]
    /\ UNCHANGED <<cacheVars, status, histVars, mutex_, settled, issued, apartVars>>

\* lock() / lock_shared() returns: the mutex is granted to the thread,
\* which goes on with the body of the method it is in
FairAcquire(t) ==
    /\ status = "running"
    /\ pc[t] = "waiting"
    /\ LET mode == call[t].op
       IN /\ CanLock(mutex_, mode)
          /\ mutex_' = Locked(mutex_, mode, t)
          /\ \E op \in SyncOps :
               /\ LockClass(op) # "none"
               /\ ExclusiveRWSyncPolicy(LockClass(op)) = mode
               /\ call' = [call EXCEPT ![t] =
                             Pending(op, 0, 0,
                                     IF op = "insert" THEN call[t].value ELSE 0)]
    /\ pc' = [pc EXCEPT ![t] = "locked"]
    /\ UNCHANGED <<cacheVars, status, histVars, settled, calls, issued,
                   apartVars>>

\* the step a thread inside a method takes next; the inserts are the
\* one-argument insert(value), which passes sizeof(value)
FairRun(t) ==
    \/ SyncInsertEvictOf(t, {SizeOfValue})
    \/ SyncInsertStore(t)
    \/ SyncBody(t)

NextFair ==
    \E t \in Threads :
        \/ FairCall(t)
        \/ FairAcquire(t)
        \/ FairRun(t)

\* every thread inside a method keeps running, and the mutex is fair: a
\* thread that could be granted the mutex again and again is granted it
Fairness ==
    \A t \in Threads :
        /\ WF_vars(FairRun(t))
        /\ SF_vars(FairAcquire(t))

\* before the threads start, n one-argument inserts were made in sequence
\* on the new cache and drew the keys 0 .. n - 1; the values they cached
\* are objects of their own
Filled(n) ==
    /\ cache_ = [k \in 0..(n - 1) |->
                    [value |-> MaxFairCalls + k + 1, size |-> SizeOfValue]]
    /\ entryList_ = [i \in 1..n |-> [key |-> n - i, size |-> SizeOfValue]]
    /\ entryMap_ = 0..(n - 1)
    /\ size_ = n * SizeOfValue
    /\ capacity_ = DefaultCapacity
    /\ status = "running"
    /\ last = IF n = 0 THEN NoCall
              ELSE Done("insert", n - 1, SizeOfValue, n - 1, TRUE, <<>>, FALSE)
    /\ useOrder = [i \in 1..n |-> n - i]
    /\ handles = {<<k, MaxFairCalls + k + 1>> : k \in 0..(n - 1)}
    /\ mutex_ = [writer |-> 0, readers |-> {}]
    /\ pc = [t \in Threads |-> "idle"]
    /\ call = [t \in Threads |-> NoPending]
    /\ settled = n * SizeOfValue
    /\ calls = 0
    /\ issued = <<>>
    /\ NoCopies

\* the threads start on the new cache or on one in which every key is live
InitFair == \E n \in {0, MaxKey + 1} : Filled(n)

SpecFair == InitFair /\ [][NextFair]_vars /\ Fairness

(* ---- SpecInserts: a run of sequential inserts, nothing else ----------- *)
\* keys.emplace_back(cache.insert(val)): one more insert, its key recorded
InsertInSequence ==
    /\ calls < MaxInserts
    /\ calls' = calls + 1
    /\ \E s \in Sizes :
         /\ InsertBody(calls + 1, s)
         /\ issued' = IF status' = "running"
                       THEN Append(issued, [key |-> last'.key, size |-> s])
                       ELSE issued
    /\ UNCHANGED <<syncVars, apartVars>>

NextInserts == InsertInSequence

\* the cache is constructed and its capacity left at the default or limited
\* by set_capacity before the first insert
SpecInserts == InitSync /\ [][NextInserts]_vars


(* ---- SpecCopy: an ObjectCache "a" and a cache "b" made from it -------- *)
(* ObjectCache and LRUPolicy declare no copy or move operations: the       *)
(* implicit ones copy or move cache_, entryList_, entryMap_, size_ and     *)
(* capacity_ member by member.  entryMap_ holds std::list iterators, that  *)
(* is addresses of list nodes, so the list is modelled node by node.       *)
Other(c) == IF c = "a" THEN "b" ELSE "a"
\* a default-constructed cache, and one whose capacity was set before use
NewObject(capacity) == [NoObject EXCEPT !.made = TRUE, !.capacity = capacity]
\* an object that calls can be made on
Usable(c) == objects[c].made /\ ~objects[c].moved

\* entryMap_[key] = iter
StoreIter(map, key, id) ==
    [k \in (DOMAIN map) \cup {key} |-> IF k = key THEN id ELSE map[k]]
\* a node is taken out of the chain it is linked in, whichever list that is
Unhook(objs, id) ==
    [x \in Objects |-> [objs[x] EXCEPT !.list = Without(@, {id})]]
\* nodes are deallocated
Free(n, ids) ==
    [i \in 1..Len(n) |-> IF i \in ids THEN [n[i] EXCEPT !.live = FALSE] ELSE n[i]]

\* LRUPolicy::insert on object c: a new node at the front, its address kept
NodeInsert(objs, n, c, key, size) ==
    LET id == Len(n) + 1
    IN [objs  |-> [objs EXCEPT ![c].list = <<id>> \o @,
                               ![c].map = StoreIter(@, key, id)],
        nodes |-> Append(n, [key |-> key, size |-> size, live |-> TRUE])]

\* LRUPolicy::touch on object c: splice(begin(), entryList_, iter).  With an
\* iterator into c's own list this moves the node to the front.  An
\* iterator into another list, or to a deallocated node, is undefined
\* behaviour: a checked build aborts; an unchecked build relinks the node
\* it is given, which takes a live node out of the list that owns it, and
\* scribbles on the heap when the node is gone.
NodeTouch(objs, n, c, key) ==
    LET id == objs[c].map[key]
        spliced == [Unhook(objs, id) EXCEPT ![c].list = <<id>> \o @]
    IN IF id \in Range(objs[c].list)
       THEN {[objs |-> spliced, nodes |-> n, outcome |-> "ok"]}
       ELSE IF n[id].live
       THEN {[objs |-> spliced, nodes |-> n, outcome |-> "foreign"],
             [objs |-> objs, nodes |-> n, outcome |-> "crash"]}
       ELSE {[objs |-> objs, nodes |-> n, outcome |-> "dangling"],
             [objs |-> objs, nodes |-> n, outcome |-> "crash"]}

\* LRUPolicy::erase on object c: entryList_.erase(iter), entryMap_.erase(key)
NodeErase(objs, n, c, key) ==
    LET id == objs[c].map[key]
        unmapped == [objs EXCEPT ![c].map = Remove(@, {key})]
        erased == [objs |-> Unhook(unmapped, id), nodes |-> Free(n, {id})]
    IN IF id \in Range(objs[c].list)
       THEN {[objs |-> erased.objs, nodes |-> erased.nodes, outcome |-> "ok"]}
       ELSE IF n[id].live
       THEN {[objs |-> erased.objs, nodes |-> erased.nodes, outcome |-> "foreign"],
             [objs |-> objs, nodes |-> n, outcome |-> "crash"]}
       ELSE {[objs |-> unmapped, nodes |-> n, outcome |-> "dangling"],
             [objs |-> objs, nodes |-> n, outcome |-> "crash"]}

\* LRUPolicy::clear(size) on a list of nodes: the while loop
RECURSIVE NodeClearLoop(_, _, _, _, _)
NodeClearLoop(list, n, keys, total, size) ==
    IF total < size
    THEN IF list = <<>>
         THEN [list |-> list, keys |-> keys, total |-> total, empty |-> TRUE]
         ELSE LET back == n[list[Len(list)]]
              IN NodeClearLoop(SubSeq(list, 1, Len(list) - 1), n,
                               Append(keys, back.key), total + back.size, size)
    ELSE [list |-> list, keys |-> keys, total |-> total, empty |-> FALSE]

\* ObjectCache::clear_(size) on object c; as Clear_N, and undefined as well
\* when the policy returns a key twice or a key that is not stored
ObjectClear_N(objs, n, c, size) ==
    LET ob == objs[c]
        r == NodeClearLoop(ob.list, n, <<>>, 0, size)
        popped == Range(ob.list) \ Range(r.list)
        gone == Range(r.keys)
        cleared == Clear_Extracted(ob.cache, r.keys)
        undefined == \/ r.empty
                     \/ ~(gone \subseteq DOMAIN ob.cache)
                     \/ Len(r.keys) # Cardinality(gone)
        after(sz) == [objs EXCEPT ![c].cache = Remove(@, gone),
                                  ![c].list = r.list,
                                  ![c].map = Remove(@, gone),
                                  ![c].size = sz]
    IN IF ~undefined
       THEN {[objs |-> after(ob.size - cleared), nodes |-> Free(n, popped),
              keys |-> r.keys, outcome |-> "ok"]}
       ELSE {[objs |-> objs, nodes |-> n, keys |-> <<>>, outcome |-> "crash"]}
            \cup
            {[objs |-> after(g), nodes |-> Free(n, popped), keys |-> r.keys,
              outcome |-> "garbage"] : g \in GarbageSizes}

\* ObjectCache::clear_() on object c
ObjectClear_All(objs, n, c) ==
    [objs  |-> [objs EXCEPT ![c].cache = <<>>, ![c].list = <<>>,
                            ![c].map = <<>>, ![c].size = 0],
     nodes |-> Free(n, Range(objs[c].list))]

\* what a call on object c returned
DoneOn(c, op, key, ret, ok, evicted, undefined) ==
    [obj |-> c, op |-> op, key |-> key, ret |-> ret, ok |-> ok,
     evicted |-> evicted, undefined |-> undefined]
\* the process aborts inside a call on object c
AbortOn(c, op) ==
    /\ status' = "crashed"
    /\ last' = DoneOn(c, op, 0, 0, FALSE, <<>>, TRUE)
    /\ UNCHANGED <<objects, nodes>>

\* one more call on one of the two objects
CopyTick ==
    /\ status = "running"
    /\ calls < MaxCopyCalls
    /\ calls' = calls + 1
    /\ UNCHANGED <<cacheVars, useOrder, handles, syncVars, issued, copied, keyVars,
                   ownVars>>

\* c.insert(value, size)
CopyInsert ==
    /\ CopyTick
    /\ \E c \in Objects, s \in Sizes :
         /\ Usable(c)
         /\ LET ob == objects[c]
                outs == IF ob.size + s > ob.capacity
                        THEN ObjectClear_N(objects, nodes, c,
                                           ob.size + s - ob.capacity)
                        ELSE {[objs |-> objects, nodes |-> nodes,
                               keys |-> <<>>, outcome |-> "ok"]}
            IN \E o \in outs :
                 \/ /\ o.outcome = "crash"
                    /\ AbortOn(c, "insert")
                 \/ /\ o.outcome # "crash"
                    /\ DrawKey(o.objs[c].cache) = {}
                    /\ status' = "spinning"
                    /\ objects' = o.objs
                    /\ nodes' = o.nodes
                    /\ last' = DoneOn(c, "insert", 0, 0, FALSE, o.keys,
                                      o.outcome = "garbage")
                 \/ /\ o.outcome # "crash"
                    /\ \E key \in DrawKey(o.objs[c].cache) :
                         LET p == NodeInsert(o.objs, o.nodes, c, key, s)
                         IN /\ objects' =
                                 [p.objs EXCEPT
                                    ![c].cache = StoreEntry(@, key, calls + 1, s),
                                    ![c].size = @ + s]
                            /\ nodes' = p.nodes
                            /\ last' = DoneOn(c, "insert", key, key, TRUE,
                                              o.keys, o.outcome = "garbage")
                    /\ UNCHANGED status

\* c.get(key)
CopyGet ==
    /\ CopyTick
    /\ \E c \in Objects, k \in Keys :
         /\ Usable(c)
         /\ IF k \notin DOMAIN objects[c].cache \/ k \notin DOMAIN objects[c].map
            THEN \* std::out_of_range from cache_.at or entryMap_.at
                 /\ last' = DoneOn(c, "get", k, 0, FALSE, <<>>, FALSE)
                 /\ UNCHANGED <<objects, nodes, status>>
            ELSE \E t \in NodeTouch(objects, nodes, c, k) :
                   IF t.outcome = "crash"
                   THEN AbortOn(c, "get")
                   ELSE /\ objects' = t.objs
                        /\ nodes' = t.nodes
                        /\ last' = DoneOn(c, "get", k, objects[c].cache[k].value,
                                          TRUE, <<>>, t.outcome # "ok")
                        /\ UNCHANGED status

\* c.erase(key)
CopyErase ==
    /\ CopyTick
    /\ \E c \in Objects, k \in Keys :
         /\ Usable(c)
         /\ LET ob == objects[c]
                extracted == [objects EXCEPT ![c].cache = Remove(@, {k})]
            IN IF k \notin DOMAIN ob.cache
               THEN /\ last' = DoneOn(c, "erase", k, 0, TRUE, <<>>, FALSE)
                    /\ UNCHANGED <<objects, nodes, status>>
               ELSE IF k \notin DOMAIN ob.map
               THEN \* entryMap_.at throws after the extract
                    /\ objects' = extracted
                    /\ last' = DoneOn(c, "erase", k, 0, FALSE, <<>>, FALSE)
                    /\ UNCHANGED <<nodes, status>>
               ELSE \E e \in NodeErase(extracted, nodes, c, k) :
                      IF e.outcome = "crash"
                      THEN AbortOn(c, "erase")
                      ELSE /\ objects' = [e.objs EXCEPT
                                            ![c].size = @ - ob.cache[k].size]
                           /\ nodes' = e.nodes
                           /\ last' = DoneOn(c, "erase", k, ob.cache[k].size,
                                             TRUE, <<>>, e.outcome # "ok")
                           /\ UNCHANGED status

\* c.clear()
CopyClear ==
    /\ CopyTick
    /\ \E c \in Objects :
         /\ Usable(c)
         /\ LET o == ObjectClear_All(objects, nodes, c)
            IN /\ objects' = o.objs
               /\ nodes' = o.nodes
               /\ last' = DoneOn(c, "clear", 0, objects[c].size, TRUE, <<>>, FALSE)
         /\ UNCHANGED status

\* the implicit copy constructor / copy assignment: cache_ and the list are
\* copied element by element (new nodes), entryMap_ is copied value by
\* value, so that the copy's map holds the addresses of the source's nodes
ImplicitCopy(src, n) ==
    LET fresh == [i \in 1..Len(src.list) |-> Len(n) + i]
    IN [object |-> [src EXCEPT !.list = fresh],
        nodes  |-> n \o [i \in 1..Len(src.list) |-> n[src.list[i]]]]
\* the implicit move constructor / move assignment: the containers hand
\* over their nodes and are left empty, the two counters are copied
ImplicitMove(src) ==
    [object |-> src,
     source |-> [src EXCEPT !.moved = TRUE, !.cache = <<>>, !.list = <<>>,
                            !.map = <<>>]]

\* ObjectCache<int> b(a);  b = a;  (b default-constructed before)
MakeByCopy ==
    /\ status = "running"
    /\ Usable("a")
    /\ ~objects["b"].made
    /\ \E how \in {"copy construction", "copy assignment"} :
         copied' = [how |-> how, cache |-> objects["a"].cache]
    /\ LET r == ImplicitCopy(objects["a"], nodes)
       IN /\ objects' = [objects EXCEPT !["b"] = r.object]
          /\ nodes' = r.nodes
    /\ last' = DoneOn("b", "copy", 0, 0, TRUE, <<>>, FALSE)
    /\ UNCHANGED <<cacheVars, useOrder, handles, syncVars, issued, status, calls,
                   keyVars, ownVars>>

\* ObjectCache<int> b(std::move(a));  b = std::move(a);
MakeByMove ==
    /\ status = "running"
    /\ Usable("a")
    /\ ~objects["b"].made
    /\ \E how \in {"move construction", "move assignment"} :
         copied' = [how |-> how, cache |-> objects["a"].cache]
    /\ LET r == ImplicitMove(objects["a"])
       IN objects' = [objects EXCEPT !["b"] = r.object, !["a"] = r.source]
    /\ last' = DoneOn("b", "move", 0, 0, TRUE, <<>>, FALSE)
    /\ UNCHANGED <<cacheVars, useOrder, handles, syncVars, issued, status, calls,
                   nodes, keyVars, ownVars>>

NextCopy ==
    \/ CopyInsert
    \/ CopyGet
    \/ CopyErase
    \/ CopyClear
    \/ MakeByCopy
    \/ MakeByMove

\* "a" is constructed, with its capacity left at the default or set to a
\* small one before its first insert; "b" is not made yet
InitCopy ==
    /\ cache_ = <<>>
    /\ entryList_ = <<>>
    /\ entryMap_ = {}
    /\ size_ = 0
    /\ capacity_ = DefaultCapacity
    /\ status = "running"
    /\ last = NoCall
    /\ useOrder = <<>>
    /\ handles = {}
    /\ mutex_ = [writer |-> 0, readers |-> {}]
    /\ pc = [t \in Threads |-> "idle"]
    /\ call = [t \in Threads |-> NoPending]
    /\ settled = 0
    /\ calls = 0
    /\ issued = <<>>
    /\ \E capacity \in {DefaultCapacity, MaxSize} :
         objects = [c \in Objects |->
                      IF c = "a" THEN NewObject(capacity) ELSE NoObject]
    /\ nodes = <<>>
    /\ copied = NoCopy
    /\ mutexes = [c \in Objects |-> 0]
    /\ gen = [busy |-> {}, torn |-> FALSE]
    /\ owners = <<>>

SpecCopy == InitCopy /\ [][NextCopy]_vars


(* ---- SpecKeys: threads inserting into SynchronizedObjectCache objects -- *)
(* UniformIntegerKey::operator() draws from function-local statics: one    *)
(* std::mt19937 per key type, shared by every cache of that key type.      *)
(* insert is followed statement by statement; the draw is two steps, entry *)
(* into dist(gen) and return from it.                                      *)
\* a thread's insert in progress
Inserting(c, size, value) ==
    [op |-> "insert", obj |-> c, arg |-> size, value |-> value, key |-> 0,
     evicted |-> <<>>, undefined |-> FALSE, retried |-> FALSE]
\* the variables no step of this specification writes
KeysFrame == UNCHANGED <<cacheVars, useOrder, handles, mutex_, settled, issued,
                         copied, ownVars>>

\* const typename sync_policy::write_lock lock(mutex_) of object c returns
KeysLockWithin(t, budget, sizes) ==
    /\ status = "running"
    /\ pc[t] = "idle"
    /\ calls < budget
    /\ calls' = calls + 1
    /\ \E c \in Objects, s \in sizes :
         /\ objects[c].made
         /\ mutexes[c] = 0
         /\ mutexes' = [mutexes EXCEPT ![c] = t]
         /\ call' = [call EXCEPT ![t] = Inserting(c, s, calls + 1)]
    /\ pc' = [pc EXCEPT ![t] = "locked"]
    /\ UNCHANGED <<objects, nodes, gen, status, last>>
    /\ KeysFrame

\* insert(value, size)
KeysLock(t) == KeysLockWithin(t, MaxKeyCalls, Sizes)

\* if (size_ + size > capacity_) clear_(size_ + size - capacity_)
KeysEvict(t) ==
    /\ status = "running"
    /\ pc[t] = "locked"
    /\ LET c == call[t].obj
           s == call[t].arg
           ob == objects[c]
           outs == IF ob.size + s > ob.capacity
                   THEN ObjectClear_N(objects, nodes, c, ob.size + s - ob.capacity)
                   ELSE {[objs |-> objects, nodes |-> nodes, keys |-> <<>>,
                          outcome |-> "ok"]}
       IN \E o \in outs :
            IF o.outcome = "crash"
            THEN /\ AbortOn(c, "insert")
                 /\ UNCHANGED <<pc, call>>
            ELSE /\ objects' = o.objs
                 /\ nodes' = o.nodes
                 /\ call' = [call EXCEPT ![t].evicted = o.keys,
                                         ![t].undefined = (o.outcome = "garbage")]
                 /\ pc' = [pc EXCEPT ![t] = "draw"]
                 /\ UNCHANGED <<status, last>>
    /\ UNCHANGED <<mutexes, gen, calls>>
    /\ KeysFrame

\* key = gen(): the thread enters dist(gen); the generator's state is torn
\* when another thread is inside
KeysDrawBegin(t) ==
    /\ status = "running"
    /\ pc[t] = "draw"
    /\ gen' = [busy |-> gen.busy \cup {t}, torn |-> gen.torn \/ gen.busy # {}]
    /\ pc' = [pc EXCEPT ![t] = "drawing"]
    /\ UNCHANGED <<objects, nodes, mutexes, call, calls, status, last>>
    /\ KeysFrame

\* dist(gen) returns key; while (cache_.count(key) > 0) sends the thread
\* back to draw again
KeysDraw(t, key) ==
    /\ status = "running"
    /\ pc[t] = "drawing"
    /\ gen' = [gen EXCEPT !.busy = @ \ {t}]
    /\ IF key \in DOMAIN objects[call[t].obj].cache
       THEN /\ pc' = [pc EXCEPT ![t] = "draw"]
            /\ call' = [call EXCEPT ![t].retried = TRUE]
       ELSE /\ pc' = [pc EXCEPT ![t] = "storing"]
            /\ call' = [call EXCEPT ![t].key = key]
    /\ UNCHANGED <<objects, nodes, mutexes, calls, status, last>>
    /\ KeysFrame
\* a generator whose state two threads wrote at once (a data race) may
\* also take the process down
KeysDrawTorn(t) ==
    /\ status = "running"
    /\ pc[t] = "drawing"
    /\ gen.torn
    /\ AbortOn(call[t].obj, "insert")
    /\ UNCHANGED <<mutexes, gen, pc, call, calls>>
    /\ KeysFrame
KeysDrawEnd(t) ==
    \/ \E key \in UniformIntegerKey : KeysDraw(t, key)
    \/ KeysDrawTorn(t)

\* cache_[key] = {std::move(value), size}; policy_.insert(key, size);
\* size_ += size; return key (the lock guard is destroyed)
KeysStore(t) ==
    /\ status = "running"
    /\ pc[t] = "storing"
    /\ LET c == call[t].obj
           k == call[t].key
           s == call[t].arg
           p == NodeInsert(objects, nodes, c, k, s)
       IN /\ objects' = [p.objs EXCEPT
                           ![c].cache = StoreEntry(@, k, call[t].value, s),
                           ![c].size = @ + s]
          /\ nodes' = p.nodes
          /\ last' = DoneOn(c, "insert", k, k, TRUE, call[t].evicted,
                            call[t].undefined)
          /\ mutexes' = [mutexes EXCEPT ![c] = 0]
    /\ pc' = [pc EXCEPT ![t] = "idle"]
    /\ call' = [call EXCEPT ![t] = NoPending]
    /\ UNCHANGED <<gen, calls, status>>
    /\ KeysFrame

NextKeys ==
    \E t \in Threads :
        \/ KeysLock(t)
        \/ KeysEvict(t)
        \/ KeysDrawBegin(t)
        \/ KeysDrawEnd(t)
        \/ KeysStore(t)

\* the caches named in `made` are constructed, all with the default
\* capacity or all with a small one
InitMade(made) ==
    /\ cache_ = <<>>
    /\ entryList_ = <<>>
    /\ entryMap_ = {}
    /\ size_ = 0
    /\ capacity_ = DefaultCapacity
    /\ status = "running"
    /\ last = NoCall
    /\ useOrder = <<>>
    /\ handles = {}
    /\ mutex_ = [writer |-> 0, readers |-> {}]
    /\ pc = [t \in Threads |-> "idle"]
    /\ call = [t \in Threads |-> NoPending]
    /\ settled = 0
    /\ calls = 0
    /\ issued = <<>>
    /\ \E capacity \in {DefaultCapacity, MaxSize} :
         objects = [c \in Objects |->
                      IF c \in made THEN NewObject(capacity) ELSE NoObject]
    /\ nodes = <<>>
    /\ copied = NoCopy
    /\ mutexes = [c \in Objects |-> 0]
    /\ gen = [busy |-> {}, torn |-> FALSE]
    /\ owners = <<>>

\* two synchronized caches of one key type, each used by any thread
InitKeys == InitMade(Objects)
SpecKeys == InitKeys /\ [][NextKeys]_vars

\* one synchronized cache shared by the threads; the thread inside insert
\* keeps running (weak fairness of its steps; the others wait for mutex_)
\* and the generator produces every key again and again (strong fairness
\* of each outcome of a draw)
InitDraw == InitMade({"a"})
FairDraw ==
    /\ WF_vars(\E t \in Threads : KeysEvict(t) \/ KeysDrawBegin(t) \/ KeysStore(t))
    /\ \A key \in UniformIntegerKey :
          SF_vars(\E t \in Threads : KeysDraw(t, key))
\* with one cache every draw is made under the same mutex_
\* insert(value): insert(value, sizeof(value))
DrawLock(t) == KeysLockWithin(t, MaxDrawCalls, {SizeOfValue})
NextDraw ==
    \E t \in Threads :
        \/ DrawLock(t)
        \/ KeysEvict(t)
        \/ KeysDrawBegin(t)
        \/ \E key \in UniformIntegerKey : KeysDraw(t, key)
        \/ KeysStore(t)
SpecDraw == InitDraw /\ [][NextDraw]_vars /\ FairDraw

(* ---- SpecOwn: an ObjectCache whose values are std::shared_ptr --------- *)
(* value_type is std::any; the test caches a std::shared_ptr<int>.  Every  *)
(* copy of a handle adds one to the use_count of the object's control      *)
(* block, every destroyed handle takes one off, and the handle that takes  *)
(* it to zero destroys the object.  `outside` counts the handles that are  *)
(* no data member of the cache: the callers' handles and the argument of   *)
(* a call that has not returned.                                           *)
\* std::make_shared: a new object and its first handle, held by the caller
MakeShared(own, v) ==
    IF v \in DOMAIN own THEN own
    ELSE [w \in (DOMAIN own) \cup {v} |->
            IF w = v THEN [uses |-> 1, outside |-> 1, dead |-> FALSE]
            ELSE own[w]]
\* a handle is copy-constructed outside the cache (an argument passed by
\* value, the value a call returns)
CopyOutside(own, v) ==
    [own EXCEPT ![v] = [uses |-> @.uses + 1, outside |-> @.outside + 1,
                        dead |-> @.dead]]
\* cache_[key] = {std::move(value), size}: the argument's handle moves
\* into the store
MoveIntoStore(own, v) ==
    [own EXCEPT ![v] = [uses |-> @.uses, outside |-> @.outside - 1,
                        dead |-> @.dead]]
\* ~shared_ptr: the handle is destroyed, and the object with the last one
DestroyHandle(own, v) ==
    [own EXCEPT ![v] = [uses |-> @.uses - 1, outside |-> @.outside,
                        dead |-> @.dead \/ @.uses = 1]]
\* the map nodes a call destroys: the node handle of each extract() at the
\* end of its scope (erase, and clear_(size) for every key the policy
\* returned), the nodes of cache_.clear()
NodesKept(before, after, evicted) == {}
NodesDestroyed(before, after, evicted) ==
    Gone(before, after) \cup (Range(evicted) \cap DOMAIN before)
\* ~CacheEntry of each destroyed node destroys the handle it holds
RECURSIVE DestroyEntries(_, _, _)
DestroyEntries(own, cache, keys) ==
    IF keys = {} THEN own
    ELSE LET k == CHOOSE key \in keys : TRUE
         IN DestroyEntries(DestroyHandle(own, cache[k].value), cache,
                           keys \ {k})
\* what a call that removes entries leaves of the objects
AfterRemoval(own) ==
    DestroyEntries(own, cache_, NodesDestroyed(cache_, cache_', last'.evicted))

\* the objects of which the caller holds a handle
HeldOutside == {v \in DOMAIN owners : owners[v].outside > 0}

OwnTick ==
    /\ calls < MaxOwnCalls
    /\ calls' = calls + 1
    /\ UNCHANGED <<syncVars, issued, copyVars, keyVars>>

\* insert(shared, sizeof(int)) passes a copy of the caller's handle;
\* insert(std::move(shared), sizeof(int)) passes the caller's handle itself.
\* The object is a new one or one the caller holds already.
OwnInsert ==
    /\ OwnTick
    /\ \E v \in {calls + 1} \cup HeldOutside, size \in {SizeOfValue},
          moved \in BOOLEAN :
         /\ InsertBody(v, size)
         /\ LET made == MakeShared(owners, v)
                passed == IF moved THEN made ELSE CopyOutside(made, v)
            IN owners' =
                 IF status' = "crashed" THEN owners
                 ELSE IF status' = "spinning" THEN AfterRemoval(passed)
                 ELSE AfterRemoval(MoveIntoStore(passed, v))

\* get and find return a copy of the stored handle
OwnGet ==
    /\ OwnTick
    /\ \E key \in Keys : GetBody(key) \/ FindBody(key)
    /\ owners' = IF last'.ok THEN CopyOutside(owners, last'.ret) ELSE owners

OwnErase ==
    /\ OwnTick
    /\ \E key \in Keys : EraseBody(key)
    /\ owners' = AfterRemoval(owners)

OwnClear ==
    /\ OwnTick
    /\ ClearBody \/ (\E n \in ClearSizes : ClearNBody(n))
    /\ owners' = AfterRemoval(owners)

OwnSetCapacity ==
    /\ OwnTick
    /\ \E c \in Capacities : SetCapacityBody(c)
    /\ owners' = AfterRemoval(owners)

\* a caller lets go of one of its handles (the scope of `shared` ends)
OwnDrop ==
    /\ status = "running"
    /\ \E v \in HeldOutside :
         owners' = [DestroyHandle(owners, v) EXCEPT ![v].outside = @ - 1]
    /\ UNCHANGED <<cacheVars, status, histVars, syncVars, calls, issued,
                   copyVars, keyVars>>

NextOwn ==
    \/ OwnInsert
    \/ OwnGet
    \/ OwnErase
    \/ OwnClear
    \/ OwnSetCapacity
    \/ OwnDrop

SpecOwn == Init /\ [][NextOwn]_vars

(* ======================================================================= *)
(* Claims                                                                  *)
(* ======================================================================= *)
LiveSum == SumSizes(cache_, DOMAIN cache_)
EvictingOps == {"insert", "clear_n", "set_capacity"}
WriteOps == {"insert", "erase", "clear", "clear_n", "set_capacity"}
\* this step is a call that returned to its caller
Returned == calls' = calls + 1 /\ status' = "running"

\* C1: after any sequence of completed calls, size() equals the sum of the
\* declared sizes of the entries currently in the store.
C1_SizeIsSumOfLiveSizes == size_ = LiveSum

\* C2: after every completed insert, erase, clear or set_capacity call,
\* size() <= capacity(), except right after an insert whose own declared
\* size exceeds capacity().
C2_SizeWithinCapacity ==
    (status = "running" /\ last.op \in WriteOps)
        => \/ size_ <= capacity_
           \/ last.op = "insert" /\ last.arg > capacity_

\* C3: whenever insert, clear(n) or set_capacity evicts entries, every
\* evicted key was last used (inserted, or fetched by a successful get or
\* find) before every key that survives the eviction.
C3_EvictsLeastRecentlyUsed ==
    [][(calls' = calls + 1 /\ last'.op \in EvictingOps)
        => \A e \in Range(last'.evicted) :
             \A k \in (DOMAIN cache_) \ Range(last'.evicted) :
                /\ Index(useOrder, k) > 0
                /\ Index(useOrder, k) < Index(useOrder, e)]_vars
\* an eviction that removed some entries and left others
C3_Witness ==
    /\ last.op \in EvictingOps
    /\ status = "running"
    /\ last.evicted # <<>>
    /\ \E k \in DOMAIN cache_ : last.op = "insert" => k # last.key

\* C4: an insert(v, s) with s > capacity() is not an error: it evicts what
\* it can, stores the entry, returns a key for which contains is true, and
\* leaves the cache over capacity with size() the sum of the live sizes.
C4_OversizedInsertIsStored ==
    (last.op = "insert" /\ last.arg > capacity_)
        => /\ status = "running"
           /\ last.ok
           /\ last.key \in DOMAIN cache_
           /\ cache_[last.key].size = last.arg
           /\ size_ = LiveSum
           /\ size_ > capacity_

\* C5: the key returned by insert(v, s) is retrievable at once, and get and
\* find return v for it as long as that entry was neither evicted nor erased.
C5_RoundTrip ==
    /\ \A h \in handles :
          /\ h[1] \in DOMAIN cache_
          /\ cache_[h[1]].value = h[2]
    /\ (status = "running" /\ last.op = "insert")
          => last.key \in DOMAIN cache_
    /\ (last.op \in {"get", "find"} /\ last.ok)
          => <<last.key, last.ret>> \in handles
\* a get that returned the value of an entry while another entry was live
C5_Witness ==
    /\ last.op = "get"
    /\ last.ok
    /\ Cardinality(DOMAIN cache_) >= 2
    /\ last.ret = cache_[last.key].value

\* C6: insert never returns a key of a live entry: no two live entries share
\* a key, and an insert leaves the value and size of every entry it did not
\* evict as they were.
C6_InsertKeyIsFresh ==
    [][(\A h1, h2 \in handles' : h1[1] = h2[1] => h1 = h2)
       /\ ((Returned /\ last'.op = "insert")
            => /\ last'.key \notin (DOMAIN cache_) \ Range(last'.evicted)
               /\ \A k \in (DOMAIN cache_) \ Range(last'.evicted) :
                     k \in DOMAIN cache_' /\ cache_'[k] = cache_[k])]_vars
\* an insert that returned while every other key of the key space was live
C6_Witness ==
    /\ last.op = "insert"
    /\ status = "running"
    /\ DOMAIN cache_ = Keys
    /\ last.evicted = <<>>

\* C7: a successful get(k) or find(k) makes k the most-recently-used entry:
\* it is the last entry to be evicted until another entry is touched or
\* inserted (touching the oldest entry and forcing one eviction removes the
\* second-oldest entry and keeps k).
C7_TouchMakesMostRecent ==
    [][/\ (Returned /\ last'.op \in {"get", "find"} /\ last'.ok)
            => /\ useOrder'[1] = last'.key
               /\ entryList_'[1].key = last'.key
       /\ (calls' = calls + 1 /\ last'.op \in EvictingOps
             /\ useOrder # <<>> /\ useOrder[1] \in Range(last'.evicted))
            => Range(last'.evicted) = DOMAIN cache_]_vars
\* the entry cached by the first call survived an eviction that removed an
\* entry cached later: it had been touched in between
C7_Witness ==
    /\ last.op \in {"clear_n", "set_capacity"}
    /\ last.evicted # <<>>
    /\ \E k \in DOMAIN cache_ : cache_[k].value = 1

\* the methods whose critical section reads or mutates the eviction order list
PolicyOps == {"insert", "erase", "clear", "clear_n", "set_capacity", "get", "find"}
InCritical(t) == pc[t] # "idle"

\* C8: under the exclusive policy the critical sections of insert, erase,
\* clear, set_capacity, get and find are mutually exclusive: while a thread
\* is inside one of them no other thread is inside any critical section
\* (theirs or that of contains, count, empty), and the mutex records exactly
\* that owner.
C8_PolicyOpsMutuallyExclusive ==
    \A t \in Threads :
        (InCritical(t) /\ call[t].op \in PolicyOps)
            => /\ \A u \in Threads \ {t} : ~InCritical(u)
               /\ mutex_ = [writer |-> t, readers |-> {}]
\* a thread is inside get on a cache that holds an entry, and the other
\* threads are kept out
C8_Witness ==
    \E t \in Threads :
        /\ pc[t] = "locked"
        /\ call[t].op = "get"
        /\ cache_ # <<>>
        /\ calls = MaxSyncCalls
        /\ \A u \in Threads \ {t} : pc[u] = "idle"

C10_GetMissingThrows ==
    [][(calls' = calls + 1 /\ last'.op = "get"
            /\ last'.key \notin DOMAIN cache_)
        => /\ ~last'.ok
           /\ status' = status
           /\ UNCHANGED <<cache_, entryList_, entryMap_, size_, capacity_>>
           /\ useOrder' = useOrder]_vars
\* a failed get on a cache that holds other entries
C10_Witness ==
    /\ last.op = "get"
    /\ ~last.ok
    /\ cache_ # <<>>
    /\ last.key \notin DOMAIN cache_

Freed(evicted) == SumSizes(cache_, Range(evicted) \cap DOMAIN cache_)
\* the evicted keys are the least recently used ones, oldest first
FromLRUEnd(evicted) ==
    /\ Len(evicted) <= Len(useOrder)
    /\ \A i \in 1..Len(evicted) : evicted[i] = useOrder[Len(useOrder) + 1 - i]
\* the eviction went on only while less than `need` bytes were freed
StoppedAt(evicted, need) ==
    /\ need <= 0 => evicted = <<>>
    /\ evicted # <<>>
         => /\ Freed(evicted) >= need
            /\ Freed(SubSeq(evicted, 1, Len(evicted) - 1)) < need

\* what an insert(v, s) step with s <= capacity() has to do
InsertAsNeeded ==
    /\ status' # "crashed"
    /\ ~last'.undefined
    /\ FromLRUEnd(last'.evicted)
    /\ StoppedAt(last'.evicted, size_ + last'.arg - capacity_)
    /\ size_ - Freed(last'.evicted) + last'.arg <= capacity_
    /\ status' = "running"
         => /\ DOMAIN cache_' = ((DOMAIN cache_) \ Range(last'.evicted))
                                   \cup {last'.key}
            /\ cache_'[last'.key].size = last'.arg
            /\ entryList_'[1] = [key |-> last'.key, size |-> last'.arg]
            /\ useOrder'[1] = last'.key
            /\ size_' = size_ - Freed(last'.evicted) + last'.arg

\* C12: insert(v, s) with s <= capacity() evicts only as much as needed: no
\* entry when size() + s <= capacity(), otherwise least-recently-used entries
\* only until size() + s <= capacity(); the new entry is then stored as the
\* most recently used one and size() is the old size minus the freed bytes
\* plus s.
C12_InsertEvictsOnlyAsNeeded ==
    [][(calls' = calls + 1 /\ last'.op = "insert" /\ last'.arg <= capacity_)
        => InsertAsNeeded]_vars
\* the same, for the inserts made while size_ is the sum of the live sizes
\* (no earlier call ran off the policy's empty list)
InsertEvictsOnlyAsNeededWhenAccounted ==
    [][(calls' = calls + 1 /\ last'.op = "insert" /\ last'.arg <= capacity_
            /\ size_ = LiveSum)
        => InsertAsNeeded]_vars

\* what a clear(n) step with n <= size() has to do
ClearsShortestRun ==
    /\ status' = "running"
    /\ ~last'.undefined
    /\ FromLRUEnd(last'.evicted)
    /\ StoppedAt(last'.evicted, last'.arg)
    /\ last'.ret = Freed(last'.evicted)
    /\ size_' = size_ - last'.ret
    /\ DOMAIN cache_' = (DOMAIN cache_) \ Range(last'.evicted)
    /\ \A k \in DOMAIN cache_' : cache_'[k] = cache_[k]
    /\ entryMap_' = DOMAIN cache_'

\* C13: for 0 <= n <= size(), clear(n) removes the shortest run of entries
\* taken from the least-recently-used end whose declared sizes sum to at
\* least n (nothing when n is 0), removes only whole entries, and returns
\* exactly the sum of the removed entries' sizes, which may exceed n.
C13_ClearNFreesShortestRun ==
    [][(calls' = calls + 1 /\ last'.op = "clear_n" /\ last'.arg <= size_)
        => ClearsShortestRun]_vars
\* the same, for the calls made while size_ is the sum of the live sizes
\* (no earlier call ran off the policy's empty list)
ClearNFreesShortestRunWhenAccounted ==
    [][(calls' = calls + 1 /\ last'.op = "clear_n" /\ last'.arg <= size_
            /\ size_ = LiveSum)
        => ClearsShortestRun]_vars

\* total declared size of the entries the eviction policy tracks
TrackedTotal == SumSeq([i \in 1..Len(entryList_) |-> entryList_[i].size])

\* C14: when clear(n) is asked to free more than the total declared size of
\* the tracked entries, it stops once no tracked entry is left: every entry
\* is removed, the amount actually freed (the previous size()) is returned,
\* and no error is raised.
C14_ClearNStopsWhenEmpty ==
    [][(calls' = calls + 1 /\ last'.op = "clear_n" /\ last'.arg > TrackedTotal)
        => /\ status' = "running"
           /\ last'.ok
           /\ last'.ret = size_
           /\ cache_' = <<>>
           /\ entryList_' = <<>>
           /\ entryMap_' = {}
           /\ size_' = 0]_vars

\* what a set_capacity(c) step has to do
SetsCapacityAndEvicts ==
    /\ status' = "running"
    /\ ~last'.undefined
    /\ capacity_' = last'.arg
    /\ FromLRUEnd(last'.evicted)
    /\ StoppedAt(last'.evicted, size_ - last'.arg)
    /\ size_' <= last'.arg
    /\ last'.ret = size_ - size_'
    /\ last'.ret = Freed(last'.evicted)
    /\ DOMAIN cache_' = (DOMAIN cache_) \ Range(last'.evicted)
    /\ size_ <= last'.arg
         => /\ last'.ret = 0
            /\ UNCHANGED <<cache_, entryList_, entryMap_, size_>>

\* C15: set_capacity(c) sets capacity() to c; if size() > c it evicts
\* least-recently-used entries until size() <= c and returns the number of
\* bytes freed (old size minus new size); if size() <= c it removes nothing
\* and returns 0.
C15_SetCapacityEvictsDownTo ==
    [][(calls' = calls + 1 /\ last'.op = "set_capacity")
        => SetsCapacityAndEvicts]_vars
\* the same, for the calls made while size_ is the sum of the live sizes
\* (no earlier call ran off the policy's empty list)
SetCapacityEvictsDownToWhenAccounted ==
    [][(calls' = calls + 1 /\ last'.op = "set_capacity" /\ size_ = LiveSum)
        => SetsCapacityAndEvicts]_vars

\* the keys of the policy's list, front first
ListKeys(list) == [i \in 1..Len(list) |-> list[i].key]

\* C16: erase(k) on a live key removes exactly that entry: it returns the
\* entry's declared size, size() drops by that amount, count() drops by one,
\* contains(k) becomes false, and every other entry keeps its value, its
\* size and its position relative to the others in the eviction order.
C16_EraseRemovesExactlyOne ==
    [][(calls' = calls + 1 /\ last'.op = "erase" /\ last'.key \in DOMAIN cache_)
        => /\ status' = "running"
           /\ last'.ok
           /\ last'.ret = cache_[last'.key].size
           /\ size_' = size_ - cache_[last'.key].size
           /\ capacity_' = capacity_
           /\ DOMAIN cache_' = (DOMAIN cache_) \ {last'.key}
           /\ Cardinality(DOMAIN cache_') = Cardinality(DOMAIN cache_) - 1
           /\ \A k \in DOMAIN cache_' : cache_'[k] = cache_[k]
           /\ ListKeys(entryList_') = Without(ListKeys(entryList_), {last'.key})
           /\ \A i \in 1..Len(entryList_') :
                 entryList_'[i].size = cache_[entryList_'[i].key].size
           /\ entryMap_' = entryMap_ \ {last'.key}
           /\ useOrder' = Without(useOrder, {last'.key})]_vars
\* an erase returned the size of its entry and left two other entries
C16_Witness ==
    /\ last.op = "erase"
    /\ last.ok
    /\ last.ret > 0
    /\ last.key \notin DOMAIN cache_
    /\ Cardinality(DOMAIN cache_) >= 2

\* C17: clear() removes every entry and returns the value size() had before
\* the call; afterwards count() == 0, size() == 0, empty() is true, the
\* eviction policy tracks no key, and capacity() is unchanged.
C17_ClearRemovesEverything ==
    [][(calls' = calls + 1 /\ last'.op = "clear")
        => /\ status' = "running"
           /\ last'.ok
           /\ last'.ret = size_
           /\ cache_' = <<>>
           /\ Cardinality(DOMAIN cache_') = 0
           /\ size_' = 0
           /\ entryList_' = <<>>
           /\ entryMap_' = {}
           /\ capacity_' = capacity_
           /\ useOrder' = <<>>]_vars
\* a clear() emptied a cache that held entries of positive size under a
\* limited capacity
C17_Witness ==
    /\ last.op = "clear"
    /\ last.ret > 0
    /\ cache_ = <<>>
    /\ size_ = 0
    /\ capacity_ \in Capacities

\* N > C inserts of size s > 0 were made, and returned, on a cache whose
\* capacity is fixed at C * s
FillScenario(C, s) ==
    /\ status = "running"
    /\ capacity_ = C * s
    /\ Len(issued) = calls
    /\ Len(issued) > C
    /\ \A i \in 1..Len(issued) : issued[i].size = s
\* the positions in `issued` of the last C inserts, and of those before them
LastInserts(C) == (Len(issued) - C + 1)..Len(issued)
FirstInserts(C) == 1..(Len(issued) - C)
\* the entries of the last C inserts, and only they, are cached
KeepsLastInserts(C) ==
    /\ DOMAIN cache_ = {issued[i].key : i \in LastInserts(C)}
    /\ \A i \in LastInserts(C) : cache_[issued[i].key].value = i
    /\ Cardinality(DOMAIN cache_) = C
    /\ size_ = capacity_

IssuedKeysDistinct ==
    \A i, j \in 1..Len(issued) : issued[i].key = issued[j].key => i = j
\* total declared size of the inserts made so far
IssuedTotal == SumSeq([i \in 1..Len(issued) |-> issued[i].size])

InspectingOps == {"contains", "count", "empty", "size", "capacity"}

\* C20: contains, count, empty, size and capacity never change the cache:
\* the entries, size(), capacity() and the eviction order are the same
\* after the call as before, so adding such calls to a sequence of
\* operations does not change which entries are evicted later.
C20_InspectingCallsChangeNothing ==
    [][(calls' = calls + 1 /\ last'.op \in InspectingOps)
        => /\ status' = "running"
           /\ UNCHANGED <<cache_, entryList_, entryMap_, size_, capacity_>>
           /\ useOrder' = useOrder
           /\ handles' = handles]_vars
\* contains returned true for an entry that is not the most recently used
\* one
C20_Witness ==
    /\ last.op = "contains"
    /\ last.ok
    /\ Cardinality(DOMAIN cache_) >= 2
    /\ entryList_[1].key # last.key

\* C22: after every completed public operation, the set of keys tracked by
\* the eviction policy equals the set of keys in the store, and the size the
\* policy records for each key equals the declared size stored with that
\* entry.
C22_PolicyTracksStore ==
    status = "running"
        => /\ entryMap_ = DOMAIN cache_
           /\ Range(ListKeys(entryList_)) = DOMAIN cache_
           /\ Len(entryList_) = Cardinality(DOMAIN cache_)
           /\ \A i \in 1..Len(entryList_) :
                 entryList_[i].size = cache_[entryList_[i].key].size
\* an erase has just removed one of three entries of different sizes
C22_Witness ==
    /\ last.op = "erase"
    /\ last.ret > 0
    /\ Cardinality(DOMAIN cache_) = 2
    /\ \E k \in DOMAIN cache_ : cache_[k].size # last.ret

\* C23: the cache never calls the policy's insert with a key the policy
\* already tracks (the assert in LRUPolicy::insert never fails), and never
\* calls the policy's touch or erase with a key the policy does not track.
C23_PolicyContractKept ==
    [][(calls' = calls + 1)
        => /\ (last'.op = "insert" /\ status' = "running")
                 => LRUInsertAssert(entryMap_ \ Range(last'.evicted), last'.key)
           /\ (last'.op \in {"get", "find"} /\ last'.key \in DOMAIN cache_)
                 => /\ ~LRUTouch(entryList_, entryMap_, last'.key).thrown
                    /\ last'.ok
           /\ (last'.op = "erase" /\ last'.key \in DOMAIN cache_)
                 => /\ ~LRUErase(entryList_, entryMap_, last'.key).thrown
                    /\ last'.ok]_vars
\* an insert evicted an entry and then drew the key of that entry: the policy
\* was handed a key it had tracked until the eviction
C23_Witness ==
    /\ last.op = "insert"
    /\ status = "running"
    /\ last.evicted # <<>>
    /\ last.key \in Range(last.evicted)
    /\ cache_ # <<>>

\* a thread's insert has run its eviction and has not stored its entry yet
Storing == {t \in Threads : pc[t] = "storing"}
\* a step in which size() returns
SizeReturns == last'.op = "size" /\ UNCHANGED <<cacheVars, mutex_, pc, call>>
\* the sizes the cache has between completed write operations around the
\* present instant: the one the last completed call left, and the one the
\* insert in progress will leave
QuiescentSizes == {settled} \cup {size_ + call[t].arg : t \in Storing}

\* C30: under the concurrent policy every value returned by the lock-free
\* size() is the size the cache has at an instant between two completed
\* write operations, never an intermediate value of a write in progress.
C30_SizeNeverIntermediate ==
    [][SizeReturns => last'.ret \in QuiescentSizes]_vars
\* C30 as the code has it: size() returns size_ as it is at the instant of
\* the read; it differs from the size between completed writes only while
\* an insert is between its eviction and the registration of its entry, and
\* it is then the size after the eviction alone.
C30_SizeIsQuiescentOrAfterEviction ==
    [][SizeReturns
        => /\ last'.ret = size_
           /\ last'.ret \notin QuiescentSizes => Storing # {}
           /\ Storing = {} => last'.ret = settled]_vars
\* size() has returned while an insert that evicted an entry had not stored
\* its own entry yet
C30_Witness ==
    /\ last.op = "size"
    /\ \E t \in Storing : call[t].evicted # <<>> /\ ~call[t].undefined
    /\ last.ret = size_
    /\ last.ret \notin QuiescentSizes

\* the cache as it is once the insert in progress has stored its entry (the
\* cache itself when no insert is between its two steps)
Linearized ==
    IF Storing = {}
    THEN [cache |-> cache_, list |-> entryList_, map |-> entryMap_,
          size |-> size_, capacity |-> capacity_]
    ELSE LET c == call[CHOOSE t \in Storing : TRUE]
             p == LRUInsert(entryList_, entryMap_, c.key, c.arg)
         IN [cache |-> StoreEntry(cache_, c.key, c.value, c.arg),
             list |-> p.list, map |-> p.map, size |-> size_ + c.arg,
             capacity |-> capacity_]
\* the holder of the exclusive lock runs the whole of its call on the cache
\* as the previous holder left it (an insert that is whole in one step is
\* one that aborts or never leaves its key loop)
SequentialCall(t) ==
    /\ mutex_.writer = t
    /\ mutex_.readers = {}
    /\ pc[t] = "locked"
    /\ Storing = {}
    /\ Storing' = {}
    /\ LET op == call[t].op
           k == last'.key
           a == last'.arg
       IN \/ /\ op = "insert"
             /\ status' # "running"
             /\ a \in Sizes
             /\ InsertBody(call[t].value, a)
          \/ op = "get" /\ k \in Keys /\ GetBody(k)
          \/ op = "find" /\ k \in Keys /\ FindBody(k)
          \/ op = "erase" /\ k \in Keys /\ EraseBody(k)
          \/ op = "clear" /\ ClearBody
          \/ op = "clear_n" /\ a \in ClearSizes /\ ClearNBody(a)
          \/ op = "set_capacity" /\ a \in Capacities /\ SetCapacityBody(a)
\* the step of an insert that commits it to its outcome: what the insert
\* will have done on return is one sequential insert on the present cache
SequentialInsert(t) ==
    /\ mutex_.writer = t
    /\ mutex_.readers = {}
    /\ pc[t] = "locked"
    /\ Storing = {}
    /\ Storing' = {t}
    /\ status' = "running"
    /\ LET s == call'[t].arg
           key == call'[t].key
           after == Linearized'
       IN /\ s \in Sizes
          /\ \E o \in InsertEvict(CacheState, s, capacity_) :
               LET p == LRUInsert(o.list, o.map, key, s)
               IN /\ o.outcome # "crash"
                  /\ key \in DrawKey(o.cache)
                  /\ call'[t].evicted = o.keys
                  /\ after = [cache |-> StoreEntry(o.cache, key, call[t].value, s),
                              list |-> p.list, map |-> p.map,
                              size |-> o.size + s, capacity |-> capacity_]
\* the insert returns what it was committed to
InsertReturns(t) ==
    /\ Storing = {t}
    /\ Storing' = {}
    /\ Linearized' = Linearized
    /\ last' = Done("insert", call[t].key, call[t].arg, call[t].key, TRUE,
                    call[t].evicted, call[t].undefined)
\* a step that neither changes the cache nor returns from one of the calls
\* the claim is about
NoEffect ==
    /\ Linearized' = Linearized
    /\ Storing' = Storing
    /\ status' = status
    /\ last' = last \/ last'.op \in {"size", "capacity", "contains", "count", "empty"}

\* C24: under the exclusive policy every concurrent execution of insert,
\* erase, clear, set_capacity, get and find is equivalent to the sequential
\* execution of the same calls in the order in which they acquired the
\* mutex: every step of the threads is a step without effect or the whole
\* of one call, made by the holder of the mutex on the cache as the holder
\* before it left it, with the return value, entries, size and eviction
\* order of the sequential call.
C24_EquivalentToAcquisitionOrder ==
    [][\/ NoEffect
       \/ \E t \in Threads :
            \/ SequentialCall(t)
            \/ SequentialInsert(t)
            \/ InsertReturns(t)]_vars
\* one thread's insert has returned and another call's insert, which
\* acquired the mutex after it, has evicted the entry of the first
C24_Witness ==
    /\ last.op = "insert"
    /\ last.ok
    /\ \E t \in Storing :
         /\ last.key \in Range(call[t].evicted)
         /\ ~call[t].undefined

\* a step that is one call on object c
CallOn(c) == calls' = calls + 1 /\ last'.obj = c
CopyKinds == {"copy construction", "copy assignment"}
\* every iterator of c's entryMap_ points into c's own entryList_
TracksOwnList(c) ==
    \A k \in DOMAIN objects[c].map : objects[c].map[k] \in Range(objects[c].list)

\* C21: a cache made from a cache a by copy construction, copy assignment,
\* move construction or move assignment returns for every key a held the
\* value a held; an insert into the new cache adds exactly one entry and
\* leaves the earlier keys retrievable.
C21_MadeCacheServesSourceEntries ==
    [][/\ (copied.how = "none" /\ copied'.how # "none")
            => /\ DOMAIN objects'["b"].cache = DOMAIN copied'.cache
               /\ \A k \in DOMAIN copied'.cache :
                     objects'["b"].cache[k].value = copied'.cache[k].value
       /\ (CallOn("b") /\ last'.op = "get")
            => /\ status' = "running"
               /\ last'.ok <=> last'.key \in DOMAIN objects["b"].cache
               /\ last'.ok => last'.ret = objects["b"].cache[last'.key].value
       /\ (CallOn("b") /\ last'.op = "insert" /\ status' = "running"
             /\ last'.evicted = <<>>)
            => /\ Cardinality(DOMAIN objects'["b"].cache)
                    = Cardinality(DOMAIN objects["b"].cache) + 1
               /\ \A k \in DOMAIN objects["b"].cache :
                     /\ k \in DOMAIN objects'["b"].cache
                     /\ objects'["b"].cache[k] = objects["b"].cache[k]]_vars

\* C28: a copy of a cache is independent of its source: the copy's policy
\* tracks the copy's entries in the copy's own order list, and a call on the
\* copy changes nothing in the source, a call on the source nothing in the
\* copy.
C28_CopyIsIndependent ==
    [][copied'.how \in CopyKinds
        => /\ copied.how = "none" => TracksOwnList("b")'
           /\ \A c \in Objects :
                 CallOn(c)
                    => /\ objects'[Other(c)] = objects[Other(c)]
                       /\ \A id \in Range(objects[Other(c)].list) :
                             nodes'[id] = nodes[id]]_vars

\* the thread is in insert's do-while loop
InLoop(t) == pc[t] \in {"draw", "drawing"}
\* the keys that are not live in the cache the thread inserts into
FreeKeys(t) == Keys \ DOMAIN objects[call[t].obj].cache

\* C26: insert's draw-and-retry loop terminates: with a generator that
\* eventually produces every key, an insert for which at least one key is
\* not live after the eviction step leaves the loop with a key, and an
\* insert stays in the loop for ever only when every key is live.
C26_KeyLoopTerminates ==
    /\ \A t \in Threads :
          (InLoop(t) /\ FreeKeys(t) # {}) ~> (pc[t] = "storing")
    /\ [][\A t \in Threads :
            (InLoop(t) /\ pc'[t] = "storing")
               => /\ FreeKeys(t) # {}
                  /\ call'[t].key \in FreeKeys(t)]_vars
\* an insert drew a live key, went round the loop again and left it with a
\* free key while another entry was live
C26_Witness ==
    \E t \in Threads :
        /\ pc[t] = "storing"
        /\ call[t].retried
        /\ objects[call[t].obj].cache # <<>>

\* C29: the key generator's state is never accessed by two threads at
\* once: every thread inside a draw holds the mutex of the cache it inserts
\* into, and no two threads are inside a draw at the same time, also when
\* they insert into two different synchronized caches of the same key type.
C29_DrawsAreExclusive ==
    /\ \A t \in gen.busy : mutexes[call[t].obj] = t
    /\ Cardinality(gen.busy) <= 1
    /\ ~gen.torn

\* the threads blocked in the constructor of their lock guard
Blocked == {t \in Threads : pc[t] = "waiting"}
\* the threads holding the mutex
Holders == {t \in Threads : mutex_.writer = t \/ t \in mutex_.readers}
\* no thread holding the mutex is acquiring it, and only a thread inside a
\* method holds it
HeldOnlyInside ==
    /\ Blocked \cap Holders = {}
    /\ \A t \in Holders : pc[t] \in {"locked", "storing"}

CacheRefs(v) == Cardinality({k \in DOMAIN cache_ : cache_[k].value = v})

\* C27: the store is the cache's only holder of a cached value: the handles
\* of an object are those outside the cache and one per store entry that
\* holds it, so that an entry removed by erase, clear or eviction leaves the
\* cache without a reference; the object is destroyed exactly when no handle
\* is left outside and no entry holds it.
C27_StoreIsOnlyHolder ==
    \A v \in DOMAIN owners :
        /\ owners[v].uses = owners[v].outside + CacheRefs(v)
        /\ owners[v].dead <=> (owners[v].outside = 0 /\ CacheRefs(v) = 0)
\* a call has just removed entries: one object lives on through a handle
\* held outside, another, which only the cache held, has been destroyed
C27_Witness ==
    /\ status = "running"
    /\ last.op \in {"erase", "clear", "clear_n", "set_capacity"}
    /\ last.ret > 0
    /\ \E v, w \in DOMAIN owners :
         /\ CacheRefs(v) = 0 /\ owners[v].outside > 0 /\ ~owners[v].dead
         /\ owners[w].dead

====
